---- MODULE Spec2Model ----
(***************************************************************************)
(* Transaction processing pipeline of the demo banking backend: QRIS       *)
(* issuance and redemption, the transaction validation chain, the PIN      *)
(* gate, the ledger mutation with its history rows, and the failed-        *)
(* transaction recording.                                                  *)
(*                                                                         *)
(* Money is counted in whole units of Rp 1,000,000 so that the configured  *)
(* limits (Rp 10^12 and Rp 2*10^12) fit the model checker's integers.      *)
(* Time is counted in minutes since the process imported its modules.      *)
(***************************************************************************)
EXTENDS Integers, Sequences, FiniteSets, TLC

\* ------------------------------------------------------------------ bounds
MaxHist == 2          \* transaction_histories rows written in one behaviour
MaxQris == 1          \* QRIS codes issued in one behaviour
MaxMinute == 30       \* latest minute of a day at which the model's clock stops ticking
MaxDay == 1           \* last calendar day the model's clock reaches
MaxDailyRows == 3     \* transaction_histories rows written in one behaviour of SpecDaily
MaxPinFailures == 4   \* wrong PINs one (customer, transaction type) submits in SpecPin
MaxShortRows == 1     \* rows written in one behaviour of SpecSink and of SpecToken

\* ------------------------------------------------------- program constants
MIN_TRANSACTION_AMOUNT == 0
MAX_TRANSACTION_AMOUNT == 1000000
DAILY_TRANSACTION_LIMIT == 2000000
QRIS_TTL_MINUTES == 15
DAY_MINUTES == 1440
\* limits announced by the rules text of the limits query, same unit
PUBLISHED_MAX_AMOUNT == 10
PUBLISHED_DAILY_LIMIT == 20

\* ------------------------------------------------------------ the fixtures
Users == {"u1", "u2"}
\* the customers the PIN gate is called for: "u3" has no PIN hash stored
PinUsers == Users \cup {"u3"}
TransactionTypes == {"qris_consume", "corporate_transaction"}
AccountNumbers == {"a1", "a2", "a3"}
Sessions == {"s1", "s2"}
Amounts == {1, 2}
Elapsed == {QRIS_TTL_MINUTES}
QrisFaults == {"none", "commit", "record"}
NoQris == 0
NoAccount == "none"

VARIABLES
    accounts,                \* accounts table: account_number -> row
    qris_transactions,       \* qris_transactions table: qris_id -> row
    QRIS_STORAGE,            \* qris_service.QRIS_STORAGE, the in-memory dict: qris_id -> data
    transaction_histories,   \* transaction_histories table, in insertion order
    now,                     \* the server clock, minutes since import
    req,                     \* one in-flight or finished request per session
    producer,                \* kafka_producer.producer: "none" or "started"
    es_client,               \* elk_kafka.es_client: "none" or "connected"
    broker,                  \* whether the event sinks answer: "up" or "down"
    published,               \* per session: what became of the events of its request
    _failed_attempts,        \* PINValidationService._failed_attempts: key -> count
    failed_checks            \* per key, the failed PIN checks since process start

corevars == <<accounts, qris_transactions, QRIS_STORAGE, transaction_histories, now, req>>
sinkvars == <<producer, es_client, broker, published>>
pinvars == <<_failed_attempts, failed_checks>>
vars == <<accounts, qris_transactions, QRIS_STORAGE, transaction_histories, now, req,
          producer, es_client, broker, published, _failed_attempts, failed_checks>>

\* -------------------------------------------------------------- the tables
InitAccounts ==
    [a \in AccountNumbers |->
        CASE a = "a1" -> [user_id |-> "u1", balance |-> 3, status |-> "active"]
          [] a = "a2" -> [user_id |-> "u2", balance |-> 0, status |-> "active"]
          [] a = "a3" -> [user_id |-> "u2", balance |-> 5, status |-> "suspended"]]

QrisIds == 1..MaxQris
NoQrisRow == [present |-> FALSE, customer_id |-> "", account_number |-> NoAccount,
              amount |-> 0, status |-> "", expired_at |-> 0]

\* no entry under a qris_id in QRIS_STORAGE
NoQrisData == [present |-> FALSE, amount |-> 0, status |-> ""]

\* the PIN-failure event of a request, as published: its log_type, its failure_reason
\* and its failed_attempts field (0: the field is not set)
NoEvent == [emitted |-> FALSE, log_type |-> <<>>, failure_reason |-> "", failed_attempts |-> 0]

\* no code presented
NoToken == [wellformed |-> TRUE, qris_id |-> NoQris, amount |-> 0, expired_at |-> 0]

\* no exception
NoError == [class |-> "", phrases |-> {}]

IdleReq ==
    [pc |-> "idle", kind |-> "", user |-> "", token |-> NoToken,
     pin |-> "", crash_type |-> FALSE, fault |-> "none",
     transaction_type |-> "", attempt |-> 0, event |-> NoEvent, pin_compared |-> FALSE,
     sent |-> {},
     session |-> "idle", max_retries |-> 0, calls |-> 0, starts |-> <<>>, sleeps |-> <<>>,
     errors |-> <<>>,
     raised |-> NoError,
     account |-> NoAccount, recipient |-> NoAccount, amount |-> 0,
     balance |-> 0, recipient_balance |-> 0, seen_status |-> "",
     status_code |-> 0, detail |-> "", reason |-> "", committed |-> FALSE,
     pre_accounts |-> InitAccounts, pre_histories |-> <<>>]

\* the module-level default of TransactionHistory.created_at is evaluated once, at import
IMPORT_TIME == 0

DayOf(t) == t \div DAY_MINUTES

\* the keys of _failed_attempts: f"{user.customer_id}:{transaction_type}"
PinKeys == PinUsers \X TransactionTypes

\* startup started the Kafka producer; elk_kafka connects at its first event
InitSinks ==
    /\ producer = "started"
    /\ es_client = "none"
    /\ broker = "up"
    /\ published = [s \in Sessions |-> ""]

InitPins ==
    /\ _failed_attempts = [k \in PinKeys |-> 0]
    /\ failed_checks = [k \in PinKeys |-> 0]

InitTables ==
    /\ accounts = InitAccounts
    /\ qris_transactions = [q \in QrisIds |-> NoQrisRow]
    /\ QRIS_STORAGE = [q \in QrisIds |-> NoQrisData]
    /\ transaction_histories = <<>>
    /\ now = IMPORT_TIME
    /\ req = [s \in Sessions |-> IdleReq]

Init ==
    /\ InitTables
    /\ InitSinks
    /\ InitPins

\* the clock moves on; nothing else changes with the passage of time
AdvanceTime(d) ==
    /\ (now + d) % DAY_MINUTES <= MaxMinute
    /\ DayOf(now + d) = DayOf(now)
    /\ now' = now + d
    /\ UNCHANGED <<accounts, qris_transactions, QRIS_STORAGE, transaction_histories, req, sinkvars, pinvars>>

Midnight ==
    /\ DayOf(now) < MaxDay
    /\ now' = (DayOf(now) + 1) * DAY_MINUTES
    /\ UNCHANGED <<accounts, qris_transactions, QRIS_STORAGE, transaction_histories, req, sinkvars, pinvars>>

\* --------------------------------------------------------- QRIS issuance
\* uuid4: an id no row carries yet
FreshQrisIds == {q \in QrisIds : ~qris_transactions[q].present}

\* encode_qris_payload / decode_qris_payload: the code is the base64 text of the JSON
\* payload (qris_id, amount and expiry here; merchant and currency travel like the
\* amount); decoding a text that is not such an encoding raises
encode_qris_payload(payload) ==
    [wellformed |-> TRUE, qris_id |-> payload.qris_id, amount |-> payload.amount,
     expired_at |-> payload.expired_at]
decode_qris_payload(qris_code) ==
    IF qris_code.wellformed
        THEN [raised |-> FALSE, qris_id |-> qris_code.qris_id, amount |-> qris_code.amount,
              expired_at |-> qris_code.expired_at]
        ELSE [raised |-> TRUE, qris_id |-> NoQris, amount |-> 0, expired_at |-> 0]

generate_qris(customer_id, account_number, amount) ==
    /\ FreshQrisIds # {}
    /\ LET qris_id == CHOOSE q \in FreshQrisIds : \A p \in FreshQrisIds : q <= p
           expired_at == now + QRIS_TTL_MINUTES
       IN  /\ qris_transactions' = [qris_transactions EXCEPT ![qris_id] =
                [present |-> TRUE, customer_id |-> customer_id, account_number |-> account_number,
                 amount |-> amount, status |-> "ACTIVE", expired_at |-> expired_at]]
           /\ QRIS_STORAGE' = [QRIS_STORAGE EXCEPT ![qris_id] =
                [present |-> TRUE, amount |-> amount, status |-> "ACTIVE"]]
    /\ UNCHANGED <<accounts, transaction_histories, now, req, sinkvars, pinvars>>

\* --------------------------------------------------- validation pipeline
RECURSIVE SumAmounts(_)
SumAmounts(rows) ==
    IF rows = <<>> THEN 0 ELSE Head(rows).amount + SumAmounts(Tail(rows))

\* _get_daily_transaction_total: the user's success rows whose created_at lies in
\* [today 00:00, tomorrow 00:00)
_get_daily_transaction_total(user, histories, t) ==
    SumAmounts(SelectSeq(histories,
        LAMBDA h : /\ h.user_id = user
                   /\ h.status = "success"
                   /\ h.created_at >= DayOf(t) * DAY_MINUTES
                   /\ h.created_at < (DayOf(t) + 1) * DAY_MINUTES))

Passed == [ok |-> TRUE, reason |-> "", raised |-> "", status_code |-> 200, error |-> ""]
Rejected(reason, error) ==
    [ok |-> FALSE, reason |-> reason, raised |-> "HTTPException", status_code |-> 400, error |-> error]

\* validate_transaction: the rules in the order the function body applies them.  The
\* insufficient-balance branch sends its alert and then reads event_data.timestamp on the
\* dict produced by model_dump, which raises AttributeError before the HTTPException.
validate_transaction(account, amount, daily_total) ==
    IF amount > account.balance
        THEN [ok |-> FALSE, reason |-> "insufficient_balance", raised |-> "AttributeError",
              status_code |-> 500, error |-> "'dict' object has no attribute 'timestamp'"]
    ELSE IF amount < MIN_TRANSACTION_AMOUNT
        THEN Rejected("amount_below_minimum", "Amount below minimum")
    ELSE IF amount > MAX_TRANSACTION_AMOUNT
        THEN Rejected("amount_exceeds_limit", "Amount exceeds transaction limit")
    ELSE IF daily_total + amount > DAILY_TRANSACTION_LIMIT
        THEN Rejected("daily_limit_exceeded", "Daily transaction limit exceeded")
    ELSE IF account.status # "active"
        THEN Rejected("account_inactive", "Account not active")
    ELSE Passed

\* the order announced by the limits query
validation_order ==
    <<"account_status", "minimum_amount", "maximum_amount", "balance_check", "daily_limit_check">>

\* the condition of each announced rule, as validate_transaction tests it
RuleViolated(rule, account, amount, daily_total) ==
    CASE rule = "account_status" -> account.status # "active"
      [] rule = "minimum_amount" -> amount < MIN_TRANSACTION_AMOUNT
      [] rule = "maximum_amount" -> amount > MAX_TRANSACTION_AMOUNT
      [] rule = "balance_check" -> amount > account.balance
      [] rule = "daily_limit_check" -> daily_total + amount > DAILY_TRANSACTION_LIMIT

\* the failure reason validate_transaction reports for each announced rule
RuleReason(rule) ==
    CASE rule = "account_status" -> "account_inactive"
      [] rule = "minimum_amount" -> "amount_below_minimum"
      [] rule = "maximum_amount" -> "amount_exceeds_limit"
      [] rule = "balance_check" -> "insufficient_balance"
      [] rule = "daily_limit_check" -> "daily_limit_exceeded"

\* ---------------------------------------------------------------- PIN gate
hashed_pin(user) == IF user = "u3" THEN "" ELSE "hash"
\* pwd_context.verify: only the PIN the stored hash was made from verifies
verify_pin(pin, hash) == hash = "hash" /\ pin = "good"

\* a gate that takes every customer for one with a PIN hash
pin_not_set_never(hash) == FALSE
\* if not user.hashed_pin
pin_not_set(hash) == hash = ""

\* a counter that never wraps
next_attempt_unbounded(count) == count + 1
\* (cls._failed_attempts.get(key, 0) % 3) + 1
next_attempt(count) == (count % 3) + 1

\* the StandardKafkaEvent built for a wrong PIN: failure_reason is the empty string and
\* failed_attempts is not among the fields set
pin_error_event(transaction_type) ==
    [emitted |-> TRUE, log_type |-> <<transaction_type, "_error_pin">>,
     failure_reason |-> "", failed_attempts |-> 0]

\* validate_pin_or_fail on the counters `attempts`; the result carries the counters as
\* the call leaves them, the attempt number of the response message, the event handed
\* to send_transaction and whether verify_pin was called
validate_pin_or_fail(user, pin, transaction_type, attempts) ==
    LET key == <<user, transaction_type>>
        failed_attempts == next_attempt(attempts[key])
    IN  IF pin_not_set(hashed_pin(user))
            THEN [ok |-> FALSE, reason |-> "pin_not_set", raised |-> "HTTPException",
                  status_code |-> 422, error |-> "PIN not set", attempt |-> 0,
                  attempts |-> attempts, event |-> NoEvent, compared |-> FALSE]
        ELSE IF ~verify_pin(pin, hashed_pin(user))
            THEN [ok |-> FALSE, reason |-> "invalid_pin", raised |-> "HTTPException",
                  status_code |-> 400, error |-> "Invalid PIN", attempt |-> failed_attempts,
                  attempts |-> [attempts EXCEPT ![key] = failed_attempts],
                  event |-> pin_error_event(transaction_type), compared |-> TRUE]
        ELSE [ok |-> TRUE, reason |-> "", raised |-> "", status_code |-> 200, error |-> "",
              attempt |-> 0, attempts |-> attempts, event |-> NoEvent, compared |-> TRUE]

\* counters moved by a PIN check that runs whatever the earlier stages found
pin_counters_unconditional(reached, p, key) ==
    /\ _failed_attempts' = p.attempts
    /\ failed_checks' = IF p.event.emitted THEN [failed_checks EXCEPT ![key] = @ + 1]
                                            ELSE failed_checks

\* the counters after a request whose PIN check `p` ran (reached) or was never reached
pin_counters(reached, p, key) ==
    /\ _failed_attempts' = IF reached THEN p.attempts ELSE _failed_attempts
    /\ failed_checks' = IF reached /\ p.event.emitted
                            THEN [failed_checks EXCEPT ![key] = @ + 1]
                            ELSE failed_checks

\* ------------------------------------------------------------ event sinks
\* a send_transaction whose try/except is taken away
kafka_send_transaction_unguarded(prod, brk) ==
    [raised |-> prod = "started" /\ brk = "down", delivered |-> prod = "started" /\ brk = "up"]
\* kafka_producer.send_transaction: without a producer the event is dropped; an error of
\* send_and_wait is caught and printed
kafka_send_transaction(prod, brk) ==
    [raised |-> FALSE, delivered |-> prod = "started" /\ brk = "up"]

\* init_elk: es_client stays None when every connection attempt fails
init_elk(brk) == IF brk = "up" THEN "connected" ELSE "none"

\* elk_kafka.send_transaction: connects on first use, drops the event when that fails;
\* an error of index() is caught and es_client is reset to None
elk_send_transaction(es, brk) ==
    LET client == IF es = "none" THEN init_elk(brk) ELSE es
    IN  IF client = "none"
            THEN [raised |-> FALSE, delivered |-> FALSE, es_client |-> "none"]
        ELSE IF brk = "up"
            THEN [raised |-> FALSE, delivered |-> TRUE, es_client |-> "connected"]
        ELSE [raised |-> FALSE, delivered |-> FALSE, es_client |-> "none"]

\* the condition of the sinks a handler step meets
SinkConditions ==
    [producer : {"none", "started"}, es_client : {"none", "connected"}, broker : {"up", "down"}]
SinkNow == [producer |-> producer, es_client |-> es_client, broker |-> broker]
KafkaRaised(sink) == kafka_send_transaction(sink.producer, sink.broker).raised
ElkRaised(sink) == elk_send_transaction(sink.es_client, sink.broker).raised

\* the sinks after the publish calls the step of session s made (req'[s].sent)
SinkStep(s) ==
    LET sent == req'[s].sent
        k == kafka_send_transaction(producer, broker)
        e == elk_send_transaction(es_client, broker)
        lost == ("kafka" \in sent /\ ~k.delivered) \/ ("elk" \in sent /\ ~e.delivered)
    IN  /\ es_client' = IF "elk" \in sent THEN e.es_client ELSE es_client
        /\ published' = [published EXCEPT ![s] =
                IF sent = {} THEN @ ELSE IF lost \/ @ = "lost" THEN "lost" ELSE "delivered"]
        /\ UNCHANGED <<producer, broker>>

\* a sink stops answering or answers again
BrokerFlip ==
    /\ broker' = IF broker = "up" THEN "down" ELSE "up"
    /\ UNCHANGED <<corevars, pinvars, producer, es_client, published>>

\* ------------------------------------------------------ ledger & recording
\* a Session keeps its changes pending until commit; rollback discards them
session_commit_rows_only(pending) ==
    /\ accounts' = accounts
    /\ transaction_histories' = transaction_histories \o pending.rows

session_commit(pending) ==
    /\ accounts' = [a \in AccountNumbers |->
                        IF a \in DOMAIN pending.balances
                            THEN [accounts[a] EXCEPT !.balance = pending.balances[a]]
                            ELSE accounts[a]]
    /\ transaction_histories' = transaction_histories \o pending.rows

\* a failure path that commits what is pending instead of discarding it
session_rollback_commits(pending) == session_commit(pending)

\* db.rollback(): what is pending is discarded
session_rollback(pending) ==
    UNCHANGED <<accounts, transaction_histories>>

NothingPending == [balances |-> <<>>, rows |-> <<>>]

\* a table without the unique index
UniqueViolation_never(rows) == FALSE

\* the unique index on transaction_histories.transaction_id
UniqueViolation(rows) ==
    \E i \in 1..Len(rows) : \E j \in 1..Len(transaction_histories) :
        rows[i].transaction_id = transaction_histories[j].transaction_id

\* uuid-based transaction ids are fresh; the model numbers them by insertion position
FreshTxn == Len(transaction_histories) + 1

\* a TransactionHistory row; written_day is the calendar day on which it was inserted
HistoryRowAt(transaction_id, user, account, type, amount, before, after, status, description, created_at, day) ==
    [transaction_id |-> transaction_id, user_id |-> user, account_id |-> account,
     transaction_type |-> type, amount |-> amount,
     balance_before |-> before, balance_after |-> after,
     status |-> status, description |-> description,
     created_at |-> created_at, written_day |-> day]

HistoryRow(transaction_id, user, account, type, amount, before, after, status, description, created_at) ==
    HistoryRowAt(transaction_id, user, account, type, amount, before, after, status,
                 description, created_at, DayOf(now))

\* a failed row whose balance_after is moved by the attempted amount, which the source
\* does not write
record_failed_transaction_debited(user, account, amount, type, failure_reason, seen_balance, fault) ==
    [balances |-> <<>>,
     rows |-> <<HistoryRow(<<"TXN", FreshTxn>>, user, account, type, amount,
                           seen_balance, seen_balance - amount, "failed", failure_reason, now)>>]

\* record_failed_transaction: a status=failed row with both balances equal to the
\* balance the session sees, stamped datetime.now(), flushed; an error inside is swallowed
record_failed_transaction(user, account, amount, type, failure_reason, seen_balance, fault) ==
    IF fault \in {"record", "commit_record"}
        THEN NothingPending
        ELSE [balances |-> <<>>,
              rows |-> <<HistoryRow(<<"TXN", FreshTxn>>, user, account, type, amount,
                                    seen_balance, seen_balance, "failed", failure_reason, now)>>]

\* an UPDATE relative to the stored value, which the source does not issue
debited_in_place(r) == accounts[r.account].balance - r.amount

\* user_account.balance -= amount, on the value the session loaded; the flush writes it
\* as an absolute value
debited(r) == r.balance - r.amount

\* a transfer that credits nothing
credited_nothing(r) == r.recipient_balance

\* recipient_account.balance += amount, likewise
credited(r) == r.recipient_balance + r.amount

Finish(s, code, detail, committed) ==
    req' = [req EXCEPT ![s].pc = "done", ![s].status_code = code,
                       ![s].detail = detail, ![s].committed = committed]

\* requests that still may write their one history row
InFlight == {s \in Sessions : req[s].pc \notin {"idle", "done"}}
\* a request is accepted while the behaviour has room for the row it may write
HasRoom(room) == Len(transaction_histories) + Cardinality(InFlight) < room

\* ------------------------------------------------------- QRIS redemption
\* validate_and_consume_qris on the persisted table; the result carries the table as the
\* function's commits leave it.  The assignment of CONSUMED is commented out in the
\* source, so the success path commits no change.
\* a status check that lets EXPIRED through to the expiry check
is_active_or_expired(status) == status \in {"ACTIVE", "EXPIRED"}

\* if qris_transaction.status != "ACTIVE": raise
is_active(status) == status = "ACTIVE"

\* an expiry check that counts the expiry instant itself as expired
is_expired_at_instant(t, expired_at) == t >= expired_at

\* if datetime.utcnow() > qris_transaction.expired_at
is_expired(t, expired_at) == t > expired_at

\* an amount read from the presented code
redeemed_amount_of_token(qris_code, qris_transaction) == qris_code.amount
\* qris_data["amount"]: float(qris_transaction.amount), of the persisted row
redeemed_amount(qris_code, qris_transaction) == qris_transaction.amount

\* QRIS_STORAGE[qris_id] = qris_data: the dict built from the row is stored when the
\* lookup succeeds, and on no other path
qris_storage_after(storage, qris_id, found_ok, table) ==
    IF found_ok
        THEN [storage EXCEPT ![qris_id] = [present |-> TRUE, amount |-> table[qris_id].amount,
                                           status |-> table[qris_id].status]]
        ELSE storage

validate_and_consume_qris(qris_code, table, t) ==
    LET decoded == decode_qris_payload(qris_code)
        qris_id == decoded.qris_id
        found == qris_id \in DOMAIN table /\ table[qris_id].present
        NoData(code, detail, seen) ==
            [ok |-> FALSE, status_code |-> code, detail |-> detail, table |-> table,
             amount |-> 0, seen_status |-> seen]
    IN  IF decoded.raised THEN NoData(400, "Invalid QRIS code format", "")
        ELSE IF ~found THEN NoData(404, "QRIS not found", "")
        ELSE IF ~is_active(table[qris_id].status)
            THEN NoData(400, "Invalid QRIS code", table[qris_id].status)
        ELSE IF is_expired(t, table[qris_id].expired_at)
            THEN [ok |-> FALSE, status_code |-> 400, detail |-> "QRIS expired",
                  table |-> [table EXCEPT ![qris_id].status = "EXPIRED"],
                  amount |-> 0, seen_status |-> "ACTIVE"]
        ELSE [ok |-> TRUE, status_code |-> 200, detail |-> "",
              table |-> table, amount |-> redeemed_amount(qris_code, table[qris_id]),
              seen_status |-> "ACTIVE"]

\* the user's first active account
ActiveAccountsOf(user) ==
    {a \in AccountNumbers : accounts[a].user_id = user /\ accounts[a].status = "active"}

\* create_retail_transaction_consume, up to the return of validate_and_consume_qris.
\* A failure here leaves qris_data unbound, so the handler records no failed row for the
\* HTTPException; for any other exception it records one with amount 0.
\* sink: the condition of the event sinks the step meets.
qris_consume_begin_under(s, user, qris_code, sink) ==
    /\ req[s].pc = "idle"
    /\ LET fresh == [IdleReq EXCEPT !.kind = "qris", !.user = user, !.token = qris_code,
                        !.transaction_type = "qris_consume",
                        !.pre_accounts = accounts, !.pre_histories = transaction_histories]
       IN  IF ActiveAccountsOf(user) = {}
           THEN /\ req' = [req EXCEPT ![s] = [fresh EXCEPT !.pc = "done", !.status_code = 400,
                                                 !.detail = "No active account found"]]
                /\ UNCHANGED <<qris_transactions, QRIS_STORAGE, accounts, transaction_histories>>
           ELSE \E user_account \in ActiveAccountsOf(user) :
                LET r == validate_and_consume_qris(qris_code, qris_transactions, now)
                    seen == [fresh EXCEPT !.account = user_account, !.seen_status = r.seen_status]
                    \* every rejection of the lookup is published before it is raised
                    refused == [seen EXCEPT !.pc = "done", !.sent = {"kafka"}]
                    unexpected == record_failed_transaction(user, user_account, 0, "qris_consume",
                                      "System error", accounts[user_account].balance, "none")
                IN  /\ qris_transactions' = r.table
                    /\ QRIS_STORAGE' = qris_storage_after(QRIS_STORAGE, qris_code.qris_id, r.ok,
                                                          r.table)
                    /\ IF r.ok
                           THEN /\ req' = [req EXCEPT ![s] =
                                       [seen EXCEPT !.pc = "validate", !.amount = r.amount]]
                                /\ UNCHANGED <<accounts, transaction_histories>>
                       ELSE IF KafkaRaised(sink)
                           THEN /\ req' = [req EXCEPT ![s] =
                                       [refused EXCEPT !.status_code = 500,
                                                       !.detail = "Failed to consume QRIS"]]
                                /\ session_commit(unexpected)
                       ELSE /\ req' = [req EXCEPT ![s] =
                                   [refused EXCEPT !.status_code = r.status_code,
                                                   !.detail = r.detail]]
                            /\ UNCHANGED <<accounts, transaction_histories>>
    /\ UNCHANGED <<now, pinvars>>

qris_consume_begin(s, user, qris_code) ==
    /\ qris_consume_begin_under(s, user, qris_code, SinkNow)
    /\ SinkStep(s)

\* an except clause whose recording and commit are not wrapped in a try of their own
compensate_unguarded(pending, fault) ==
    [raised |-> fault \in {"record", "commit_record", "record_commit"},
     persisted |-> IF fault = "record_commit" THEN NothingPending ELSE pending]
\* the inner try of the handler's except clauses: record the failed row and commit it;
\* whatever that raises is printed.  A commit that raises persists nothing.
compensate(pending, fault) ==
    [raised |-> FALSE,
     persisted |-> IF fault = "record_commit" THEN NothingPending ELSE pending]

\* the handler's two except clauses: record the failed row, commit, raise
qris_consume_failed(s, r, status_code, detail, failure_reason, seen_balance, fault) ==
    LET pending == record_failed_transaction(r.user, r.account, r.amount, "qris_consume",
                                             failure_reason, seen_balance, fault)
        c == compensate(pending, fault)
        \* an exception that leaves an except clause reaches the client as a bare 500
        answered == IF c.raised
                        THEN [r EXCEPT !.status_code = 500, !.detail = "Internal Server Error"]
                        ELSE [r EXCEPT !.status_code = status_code, !.detail = detail]
    IN  /\ session_commit(c.persisted)
        /\ req' = [req EXCEPT ![s] = [answered EXCEPT !.pc = "done", !.fault = fault]]

\* validate_transaction, validate_pin_or_fail and the simulated crash.  The commit inside
\* validate_and_consume_qris expired the session, so the balance is read afresh here.
\* fault: whether the storage fails while the failed row is recorded.
\* Every branch of validate_transaction publishes to the Elasticsearch sink, and so does
\* a refused PIN; only the validation success event is sent under its own try/except.
qris_consume_validate_under(s, pin, crash_type, fault, sink) ==
    /\ req[s].pc = "validate"
    /\ req[s].kind = "qris"
    /\ LET r == req[s]
           account == accounts[r.account]
           v == validate_transaction(account, r.amount,
                    _get_daily_transaction_total(r.user, transaction_histories, now))
           p == validate_pin_or_fail(r.user, pin, "qris_consume", _failed_attempts)
           rv == [r EXCEPT !.reason = v.reason,
                           !.sent = {"elk"}]
           rp == [r EXCEPT !.pin = pin, !.reason = p.reason, !.attempt = p.attempt,
                           !.event = p.event, !.pin_compared = p.compared, !.sent = {"elk"}]
           rc == [r EXCEPT !.pin = pin, !.crash_type = crash_type,
                           !.pin_compared = p.compared, !.sent = {"elk"}]
       IN  /\ IF ~v.ok /\ v.raised = "HTTPException" /\ ElkRaised(sink)
                  THEN qris_consume_failed(s, rv, 500, "Failed to consume QRIS", "System error",
                                           account.balance, fault)
              ELSE IF ~v.ok /\ v.raised = "HTTPException"
                  THEN qris_consume_failed(s, rv, v.status_code, v.error, v.error,
                                           account.balance, fault)
              ELSE IF ~v.ok
                  THEN qris_consume_failed(s, rv, 500, "Failed to consume QRIS", "System error",
                                           account.balance, fault)
              ELSE IF ~p.ok /\ p.event.emitted /\ ElkRaised(sink)
                  THEN qris_consume_failed(s, rp, 500, "Failed to consume QRIS", "System error",
                                           account.balance, fault)
              ELSE IF ~p.ok
                  THEN qris_consume_failed(s, rp, p.status_code, p.error, p.error,
                                           account.balance, fault)
              ELSE IF crash_type
                  THEN qris_consume_failed(s, rc, 500, "Failed to consume QRIS", "System error",
                                           account.balance, fault)
              ELSE /\ fault = "none"
                   /\ req' = [req EXCEPT ![s] = [rc EXCEPT !.pc = "ledger",
                                                            !.balance = account.balance]]
                   /\ UNCHANGED <<accounts, transaction_histories>>
           /\ pin_counters(v.ok, p, <<r.user, "qris_consume">>)
    /\ UNCHANGED <<qris_transactions, QRIS_STORAGE, now>>

qris_consume_validate(s, pin, crash_type, fault) ==
    /\ qris_consume_validate_under(s, pin, crash_type, fault, SinkNow)
    /\ SinkStep(s)

\* the balance update, the success row and the commit, then the transaction event.  The
\* row's transaction_id is the qris_id; created_at is left to the column default.
\* fault: "commit" when the storage fails at the commit, "record" when it fails while the
\* failed row is recorded, "commit_record" when it fails at both, "record_commit" when it
\* fails at the commit of the failed row.
qris_consume_ledger_under(s, fault, sink) ==
    /\ req[s].pc = "ledger"
    /\ req[s].kind = "qris"
    /\ LET r == req[s]
           balance_before == r.balance
           balance_after == debited(r)
           row == HistoryRow(<<"qris", r.token.qris_id>>, r.user, r.account, "qris_consume",
                             r.amount, balance_before, balance_after, "success",
                             "QRIS payment", IMPORT_TIME)
           pending == [balances |-> (r.account :> balance_after), rows |-> <<row>>]
           \* an exception after the commit: the except clause records a failed row
           late == record_failed_transaction(r.user, r.account, r.amount, "qris_consume",
                                             "System error", balance_after, "none")
           paid == [r EXCEPT !.sent = {"kafka"}]
       IN  IF fault \in {"commit", "commit_record"} \/ UniqueViolation(pending.rows)
               \* commit raises and the session is rolled back; the except clause reloads
               \* the account and records the failure
               THEN qris_consume_failed(s, [r EXCEPT !.sent = {}], 500, "Failed to consume QRIS",
                                        "System error", accounts[r.account].balance, fault)
           ELSE IF KafkaRaised(sink)
               THEN /\ fault = "none"
                    /\ session_commit([pending EXCEPT !.rows = @ \o late.rows])
                    /\ req' = [req EXCEPT ![s] = [paid EXCEPT !.pc = "done", !.status_code = 500,
                                    !.detail = "Failed to consume QRIS", !.committed = TRUE]]
           ELSE /\ fault = "none"
                /\ session_commit(pending)
                /\ req' = [req EXCEPT ![s] = [paid EXCEPT !.pc = "done", !.status_code = 200,
                                !.detail = "SUCCESS", !.committed = TRUE]]
    /\ UNCHANGED <<qris_transactions, QRIS_STORAGE, now, pinvars>>

qris_consume_ledger(s, fault) ==
    /\ qris_consume_ledger_under(s, fault, SinkNow)
    /\ SinkStep(s)

\* ---------------------------------------------------- corporate transfer
\* create_corporate_transaction, stages 1 to 3: the two account lookups, the self-transfer
\* check, validate_transaction and validate_pin_or_fail.  Both except clauses roll the
\* session back, record nothing and publish the error to the Kafka sink.
corporate_begin_under(s, user, account_number, recipient_account_number, amount, pin, sink) ==
    /\ req[s].pc = "idle"
    /\ LET fresh == [IdleReq EXCEPT !.kind = "corporate", !.user = user,
                        !.transaction_type = "corporate_transaction",
                        !.account = account_number, !.recipient = recipient_account_number,
                        !.amount = amount,
                        !.pre_accounts = accounts, !.pre_histories = transaction_histories]
           \* an exception leaving the except clause reaches the client as a bare 500
           Fail(r, code, detail) ==
               IF KafkaRaised(sink)
                   THEN [r EXCEPT !.pc = "done", !.status_code = 500,
                                  !.detail = "Internal Server Error", !.sent = @ \cup {"kafka"}]
                   ELSE [r EXCEPT !.pc = "done", !.status_code = code, !.detail = detail,
                                  !.sent = @ \cup {"kafka"}]
           user_account_found ==
               /\ accounts[account_number].user_id = user
               /\ accounts[account_number].status = "active"
           recipient_found == accounts[recipient_account_number].status = "active"
           v == validate_transaction(accounts[account_number], amount,
                    _get_daily_transaction_total(user, transaction_histories, now))
           p == validate_pin_or_fail(user, pin, "corporate_transaction", _failed_attempts)
           judged == [fresh EXCEPT !.reason = v.reason,
                                   !.sent = {"elk"}]
           gated == [fresh EXCEPT !.pin = pin, !.attempt = p.attempt, !.event = p.event,
                                  !.pin_compared = p.compared, !.sent = {"elk"}]
           reached ==
               /\ user_account_found
               /\ recipient_found
               /\ account_number # recipient_account_number
               /\ v.ok
       IN  /\ req' = [req EXCEPT ![s] =
                IF ~user_account_found THEN Fail(fresh, 400, "Account not found")
                ELSE IF ~recipient_found THEN Fail(fresh, 400, "Recipient account not found")
                ELSE IF account_number = recipient_account_number
                    THEN Fail(fresh, 400, "Invalid transfer")
                ELSE IF ~v.ok /\ v.raised = "HTTPException" /\ ~ElkRaised(sink)
                    THEN Fail(judged, v.status_code, v.error)
                ELSE IF ~v.ok THEN Fail(judged, 500, "Failed to process corporate transaction")
                ELSE IF ~p.ok /\ p.event.emitted /\ ElkRaised(sink)
                    THEN Fail([gated EXCEPT !.reason = p.reason], 500,
                              "Failed to process corporate transaction")
                ELSE IF ~p.ok THEN Fail([gated EXCEPT !.reason = p.reason], p.status_code, p.error)
                ELSE [gated EXCEPT !.pc = "ledger",
                                   !.balance = accounts[account_number].balance,
                                   !.recipient_balance = accounts[recipient_account_number].balance]]
           /\ pin_counters(reached, p, <<user, "corporate_transaction">>)
    /\ session_rollback(NothingPending)
    /\ UNCHANGED <<qris_transactions, QRIS_STORAGE, now>>

corporate_begin(s, user, account_number, recipient_account_number, amount, pin) ==
    /\ corporate_begin_under(s, user, account_number, recipient_account_number, amount, pin,
                             SinkNow)
    /\ SinkStep(s)

\* stages 4 and 5: debit the sender, credit the recipient, add the sender's row, commit;
\* then the simulated crash, raised after the commit, and the transaction event.
\* fault: "processing" when stage 5 raises before the commit, "commit" when the commit raises.
corporate_ledger_under(s, crash_type, fault, sink) ==
    /\ req[s].pc = "ledger"
    /\ req[s].kind = "corporate"
    /\ LET r == req[s]
           sender_balance_before == r.balance
           sender_balance_after == debited(r)
           recipient_balance_after == credited(r)
           row == HistoryRow(<<"corp", FreshTxn>>, r.user, r.account, "transfer_out",
                             r.amount, sender_balance_before, sender_balance_after, "success",
                             "transfer", IMPORT_TIME)
           pending == [balances |-> (r.account :> sender_balance_after)
                                        @@ (r.recipient :> recipient_balance_after),
                       rows |-> <<row>>]
           \* the success event and the error events of both except clauses go to Kafka
           Out(code, detail, committed) ==
               req' = [req EXCEPT ![s] = [r EXCEPT !.pc = "done",
                            !.status_code = IF KafkaRaised(sink) THEN 500 ELSE code,
                            !.detail = IF KafkaRaised(sink) THEN "Internal Server Error" ELSE detail,
                            !.committed = committed, !.sent = {"kafka"},
                            !.crash_type = crash_type, !.fault = fault]]
       IN  IF fault \in {"processing", "commit"} \/ UniqueViolation(pending.rows)
               THEN /\ session_rollback(pending)
                    /\ Out(500, "Failed to process corporate transaction", FALSE)
           ELSE IF crash_type
               THEN /\ session_commit(pending)
                    /\ Out(500, "Failed to process corporate transaction", TRUE)
           ELSE /\ session_commit(pending)
                /\ Out(200, "success", TRUE)
    /\ UNCHANGED <<qris_transactions, QRIS_STORAGE, now, pinvars>>

corporate_ledger(s, crash_type, fault) ==
    /\ corporate_ledger_under(s, crash_type, fault, SinkNow)
    /\ SinkStep(s)

\* the response leaves the server and get_db closes the session
respond(s) ==
    /\ req[s].pc = "done"
    /\ req' = [req EXCEPT ![s] = IdleReq]
    /\ published' = [published EXCEPT ![s] = ""]
    /\ UNCHANGED <<accounts, qris_transactions, QRIS_STORAGE, transaction_histories, now,
                   producer, es_client, broker, pinvars>>

\* ----------------------------------------------------------- the requests
\* <<pin, crash_type, fault>> met after the QRIS lookup
QrisModes == {<<"good", FALSE, "none">>, <<"bad", FALSE, "none">>, <<"good", TRUE, "none">>,
              <<"bad", FALSE, "record">>}
\* <<user, account_number, recipient_account_number>> of a transfer
TransferRoutes == {<<"u1", "a1", "a2">>, <<"u2", "a2", "a1">>, <<"u1", "a1", "a1">>,
                   <<"u1", "a1", "a3">>, <<"u1", "a2", "a1">>, <<"u2", "a3", "a1">>}
Pins == {"good", "bad"}
\* <<crash_type, fault>> met in the ledger stage of a transfer
CorporateModes == {<<FALSE, "none">>, <<TRUE, "none">>, <<FALSE, "commit">>, <<FALSE, "processing">>}

\* <<customer, account_number>> of an issue request: each customer names their active account
IssueRequests == {<<"u1", "a1">>, <<"u2", "a2">>}
IssueAmounts == {2}
\* the codes presented: for every issued or issuable id the code of an issue at import
\* time, and a text that does not decode
Malformed == [wellformed |-> FALSE, qris_id |-> NoQris, amount |-> 0, expired_at |-> 0]
QrisCodes ==
    {encode_qris_payload([qris_id |-> q, amount |-> a,
                          expired_at |-> IMPORT_TIME + QRIS_TTL_MINUTES]) :
        q \in QrisIds, a \in IssueAmounts} \cup {Malformed}

Issue ==
    \E i \in IssueRequests, amount \in IssueAmounts : generate_qris(i[1], i[2], amount)

RedeemBegin(s, room, codes) ==
    /\ HasRoom(room)
    /\ \E user \in Users, qris_code \in codes : qris_consume_begin(s, user, qris_code)

\* the handlers meet one wrong PIN in a behaviour, typed by u1; SpecPin submits them
\* in series for every customer
Mistypers == {"u1"}
MayTry(user, pin) ==
    pin = "bad" => user \in Mistypers /\ \A k \in PinKeys : failed_checks[k] = 0

RedeemValidate(s, modes) ==
    \E m \in modes :
        /\ req[s].pc = "validate"
        /\ MayTry(req[s].user, m[1])
        /\ qris_consume_validate(s, m[1], m[2], m[3])

RedeemLedger(s, faults) ==
    \E fault \in faults : qris_consume_ledger(s, fault)

TransferBegin(s, routes, amounts, pins, room) ==
    /\ HasRoom(room)
    /\ \E t \in routes, amount \in amounts, pin \in pins :
          /\ MayTry(t[1], pin)
          /\ corporate_begin(s, t[1], t[2], t[3], amount, pin)

TransferLedger(s, modes) ==
    \E m \in modes : corporate_ledger(s, m[1], m[2])

Clock == \E d \in Elapsed : AdvanceTime(d)

\* one request at a time
Next ==
    \/ Issue
    \/ Clock
    \/ RedeemBegin("s1", MaxHist, QrisCodes)
    \/ RedeemValidate("s1", QrisModes)
    \/ RedeemLedger("s1", QrisFaults)
    \/ TransferBegin("s1", TransferRoutes, Amounts, Pins, MaxHist)
    \/ TransferLedger("s1", CorporateModes)
    \/ respond("s1")
Spec == Init /\ [][Next]_vars

\* requests of two sessions interleave between their database reads and writes
ConcurrentModes == {<<"good", FALSE, "none">>}
ConcurrentRoutes == {<<"u1", "a1", "a2">>, <<"u2", "a2", "a1">>}
NextConcurrent ==
    \/ Issue
    \/ \E s \in Sessions : RedeemBegin(s, MaxHist, QrisCodes)
    \/ \E s \in Sessions : RedeemValidate(s, ConcurrentModes)
    \/ \E s \in Sessions : RedeemLedger(s, {"none"})
    \/ \E s \in Sessions : TransferBegin(s, ConcurrentRoutes, Amounts, {"good"}, MaxHist)
    \/ \E s \in Sessions : TransferLedger(s, {<<FALSE, "none">>})
    \/ \E s \in Sessions : respond(s)
SpecConcurrent == Init /\ [][NextConcurrent]_vars

\* ------------------------------------------------- validate_transaction alone
\* the function applied to an account, an amount and a day's history, each drawn from
\* values the tables can hold
ValidateAmounts == {0 - 1, 0, 1, 6, MAX_TRANSACTION_AMOUNT, MAX_TRANSACTION_AMOUNT + 1}
ValidateHistories ==
    {<<>>} \cup
    {<<HistoryRowAt(<<"corp", 1>>, u, a, "transfer_out", m, m, 0, "success", "transfer",
                    IMPORT_TIME, 0)>> :
        u \in {"u1"}, a \in {"a1"}, m \in {1, DAILY_TRANSACTION_LIMIT - 1, DAILY_TRANSACTION_LIMIT}}

InitValidate ==
    /\ accounts = InitAccounts
    /\ qris_transactions = [q \in QrisIds |-> NoQrisRow]
    /\ QRIS_STORAGE = [q \in QrisIds |-> NoQrisData]
    /\ transaction_histories \in ValidateHistories
    /\ now = IMPORT_TIME
    /\ req = [s \in Sessions |-> IdleReq]
    /\ InitSinks
    /\ InitPins

\* one call of validate_transaction; the outcome is kept in the request record
Validate_under(s, user, account_number, amount, sink) ==
    /\ req[s].pc = "idle"
    /\ LET v == validate_transaction(accounts[account_number], amount,
                    _get_daily_transaction_total(user, transaction_histories, now))
           \* an alert that raises replaces the HTTPException of the rule
           alert_raised == ~v.ok /\ v.raised = "HTTPException" /\ ElkRaised(sink)
       IN  req' = [req EXCEPT ![s] = [IdleReq EXCEPT !.pc = "done", !.kind = "validate",
                        !.user = user, !.account = account_number, !.amount = amount,
                        !.status_code = IF alert_raised THEN 500 ELSE v.status_code,
                        !.detail = IF alert_raised THEN "send_transaction raised" ELSE v.error,
                        !.reason = v.reason,
                        !.sent = {"elk"},
                        !.pre_accounts = accounts, !.pre_histories = transaction_histories]]
    /\ UNCHANGED <<accounts, qris_transactions, QRIS_STORAGE, transaction_histories, now, pinvars>>

Validate(s, user, account_number, amount) ==
    /\ Validate_under(s, user, account_number, amount, SinkNow)
    /\ SinkStep(s)

NextValidate ==
    \/ \E user \in Users, account_number \in AccountNumbers, amount \in ValidateAmounts :
          Validate("s1", user, account_number, amount)
    \/ respond("s1")
SpecValidate == InitValidate /\ [][NextValidate]_vars

\* ------------------------------------------------- validate_pin_or_fail alone
\* one call of validate_pin_or_fail; the outcome is kept in the request record
PinCheck_under(s, user, pin, transaction_type, sink) ==
    /\ req[s].pc = "idle"
    /\ LET p == validate_pin_or_fail(user, pin, transaction_type, _failed_attempts)
           \* an event that raises replaces the HTTPException of the gate
           event_raised == p.event.emitted /\ ElkRaised(sink)
       IN  /\ req' = [req EXCEPT ![s] = [IdleReq EXCEPT !.pc = "done", !.kind = "pin",
                        !.user = user, !.pin = pin, !.transaction_type = transaction_type,
                        !.status_code = IF event_raised THEN 500 ELSE p.status_code,
                        !.detail = IF event_raised THEN "send_transaction raised" ELSE p.error,
                        !.reason = p.reason, !.attempt = p.attempt, !.event = p.event,
                        !.pin_compared = p.compared,
                        !.sent = IF p.event.emitted THEN {"elk"} ELSE {},
                        !.pre_accounts = accounts, !.pre_histories = transaction_histories]]
           /\ pin_counters(TRUE, p, <<user, transaction_type>>)
    /\ UNCHANGED <<accounts, qris_transactions, QRIS_STORAGE, transaction_histories, now>>

PinCheck(s, user, pin, transaction_type) ==
    /\ PinCheck_under(s, user, pin, transaction_type, SinkNow)
    /\ SinkStep(s)

\* every customer submits PINs, right and wrong, for both transaction types
NextPin ==
    \/ \E user \in PinUsers, pin \in Pins, transaction_type \in TransactionTypes :
          /\ pin = "bad" => failed_checks[<<user, transaction_type>>] < MaxPinFailures
          /\ PinCheck("s1", user, pin, transaction_type)
    \/ respond("s1")
SpecPin == Init /\ [][NextPin]_vars

\* ------------------------------------------------- the recording of a failure fails
\* redemptions that fail at every stage, while the storage fails at the flush or at the
\* commit of the failed row
RecordModes == Pins \X BOOLEAN \X {"none", "record", "record_commit"}
RecordFaults == {"none", "commit", "commit_record"}
NextRecord ==
    \/ Issue
    \/ RedeemBegin("s1", MaxHist, QrisCodes)
    \/ RedeemValidate("s1", RecordModes)
    \/ RedeemLedger("s1", RecordFaults)
    \/ respond("s1")
SpecRecord == Init /\ [][NextRecord]_vars

\* ------------------------------------------------- codes that are not the issued ones
\* codes that decode and name an id, with the amount and the expiry anything a holder
\* of the id may write into them
TokenCodes ==
    [wellformed : {TRUE}, qris_id : QrisIds, amount : {0, 1, 2},
     expired_at : {IMPORT_TIME + QRIS_TTL_MINUTES, DAY_MINUTES}] \cup {Malformed}
NextToken ==
    \/ Issue
    \/ Clock
    \/ RedeemBegin("s1", MaxShortRows, TokenCodes)
    \/ RedeemValidate("s1", {<<"good", FALSE, "none">>, <<"bad", FALSE, "none">>})
    \/ RedeemLedger("s1", {"none"})
    \/ respond("s1")
SpecToken == Init /\ [][NextToken]_vars

\* ------------------------------------------------- the sinks come and go
\* startup may have found Kafka unreachable, and the sinks stop and resume answering
\* while requests are served
InitSink ==
    /\ InitTables
    /\ InitPins
    /\ producer \in {"none", "started"}
    /\ es_client = "none"
    /\ broker \in {"up", "down"}
    /\ published = [s \in Sessions |-> ""]

SinkQrisModes == {<<"good", FALSE, "none">>, <<"bad", FALSE, "none">>}
SinkRoutes == {<<"u1", "a1", "a2">>, <<"u1", "a1", "a3">>}
SinkCorporateModes == {<<FALSE, "none">>, <<FALSE, "commit">>}
NextSink ==
    \/ BrokerFlip
    \/ Issue
    \/ Clock
    \/ RedeemBegin("s1", MaxShortRows, QrisCodes)
    \/ RedeemValidate("s1", SinkQrisModes)
    \/ RedeemLedger("s1", {"none"})
    \/ TransferBegin("s1", SinkRoutes, {2, 4}, Pins, MaxShortRows)
    \/ TransferLedger("s1", SinkCorporateModes)
    \/ \E amount \in {2, 4} : HasRoom(MaxShortRows) /\ Validate("s1", "u1", "a1", amount)
    \/ \E pin \in Pins : /\ HasRoom(MaxShortRows)
                          /\ MayTry("u1", pin)
                          /\ PinCheck("s1", "u1", pin, "corporate_transaction")
    \/ respond("s1")
SpecSink == InitSink /\ [][NextSink]_vars

\* ------------------------------------------- database_utils: retry and scope
\* the defaults of retry_db_operation
DEFAULT_MAX_RETRIES == 3
DEFAULT_DELAY == 1
DEFAULT_BACKOFF_FACTOR == 2

\* the phrases retry_db_operation looks for in str(e)
TransientPatterns ==
    {"PendingRollbackError", "rollback", "invalid transaction", "server closed the connection",
     "connection was closed", "Lost connection", "MySQL server has gone away",
     "server closed the connection unexpectedly"}

\* the errors an operation raises: its class, and the phrases of TransientPatterns its
\* message contains
DbErrors ==
    {[class |-> "OperationalError",
      phrases |-> {"server closed the connection", "server closed the connection unexpectedly"}],
     [class |-> "InvalidRequestError", phrases |-> {"invalid transaction", "rollback"}],
     [class |-> "IntegrityError", phrases |-> {}],
     [class |-> "ValueError", phrases |-> {}]}

\* the operation returns its result
Returned == [class |-> "ok", phrases |-> {}]

\* except (OperationalError, DatabaseError, InvalidRequestError): the classes named and
\* their subclasses
is_db_error(e) ==
    e.class \in {"OperationalError", "DatabaseError", "InvalidRequestError", "IntegrityError",
                 "PendingRollbackError"}

\* any(error_type in str(e) for error_type in [...])
is_transaction_or_connection_error(e) == e.phrases \cap TransientPatterns # {}

\* a wait that does not grow
wait_time_flat(delay, backoff_factor, attempt) == delay
\* wait_time = delay * (backoff_factor ** attempt)
wait_time(delay, backoff_factor, attempt) == delay * backoff_factor ^ attempt

\* the exception of the first failed attempt
first_exception(errors) == errors[1]
\* raise e, in the except clause of the last attempt
last_exception(errors) == errors[Len(errors)]

\* the Session: "idle" with no transaction begun, "in_transaction" with an active one,
\* "pending_rollback" with one that a failed flush has deactivated and that awaits its
\* rollback, "closed"; and the Session as a call leaves it
db_query(session) == "in_transaction"
db_rollback(session) == "idle"
db_commit(session) == "idle"
db_close(session) == "closed"

\* a check that finds no transaction to roll back
has_active_transaction_never(session) == FALSE

\* what any statement raises on a session whose transaction awaits its rollback
PendingRollbackError == [class |-> "PendingRollbackError", phrases |-> {"rollback"}]

\* db.in_transaction() and db.get_transaction() and db.get_transaction().is_active
has_active_transaction(session) == session = "in_transaction"
\* db.in_transaction()
in_transaction(session) == session \in {"in_transaction", "pending_rollback"}

\* safe_db_query is called on the request's session, which may have a transaction begun
SessionStates == {"idle", "in_transaction", "pending_rollback"}
safe_db_query_begin(s, session, max_retries) ==
    /\ req[s].pc = "idle"
    /\ req' = [req EXCEPT ![s] = [IdleReq EXCEPT !.pc = "attempt", !.kind = "query",
                    !.session = session, !.max_retries = max_retries]]
    /\ UNCHANGED <<accounts, qris_transactions, QRIS_STORAGE, transaction_histories, now, sinkvars, pinvars>>

\* one turn of the loop of retry_db_operation around operation_with_session: the rollback
\* of a transaction found begun, the query, and on an error the rollback, the recovery,
\* the re-raise or the sleep.
\* outcome: Returned, or the error the query raises.
retry_db_operation_attempt(s, outcome) ==
    /\ req[s].pc = "attempt"
    /\ req[s].kind = "query"
    /\ LET r == req[s]
           attempt == r.calls
           cleaned == IF has_active_transaction(r.session) THEN db_rollback(r.session)
                                                           ELSE r.session
           \* starts: the session as each attempt found it and as its query began on it
           called == [r EXCEPT !.calls = @ + 1, !.starts = Append(@, <<r.session, cleaned>>)]
           \* query_func(db) on a session whose transaction awaits its rollback raises
           met == IF cleaned = "pending_rollback" THEN PendingRollbackError ELSE outcome
           failed == [called EXCEPT !.errors = Append(@, met),
                                    !.session = db_rollback(db_query(cleaned))]
           recovered == IF is_transaction_or_connection_error(met)
                            THEN [failed EXCEPT !.session = db_close(db_rollback(@))]
                            ELSE failed
       IN  req' = [req EXCEPT ![s] =
                IF met = Returned
                    THEN [called EXCEPT !.pc = "done", !.status_code = 200,
                                        !.session = db_query(cleaned)]
                ELSE IF ~is_db_error(met)
                    THEN [failed EXCEPT !.pc = "done", !.status_code = 500, !.raised = met]
                ELSE IF attempt = r.max_retries
                    THEN [recovered EXCEPT !.pc = "done", !.status_code = 500,
                                           !.raised = last_exception(recovered.errors)]
                ELSE [recovered EXCEPT !.sleeps = Append(@,
                          wait_time(DEFAULT_DELAY, DEFAULT_BACKOFF_FACTOR, attempt))]]
    /\ UNCHANGED <<accounts, qris_transactions, QRIS_STORAGE, transaction_histories, now, sinkvars, pinvars>>

\* with safe_db_session(db): the rollback of a transaction found begun, then the block
safe_db_session_enter(s, session) ==
    /\ req[s].pc = "idle"
    /\ req' = [req EXCEPT ![s] = [IdleReq EXCEPT !.pc = "block", !.kind = "scope",
                    !.session = IF in_transaction(session) THEN db_rollback(session)
                                                           ELSE session]]
    /\ UNCHANGED <<accounts, qris_transactions, QRIS_STORAGE, transaction_histories, now, sinkvars, pinvars>>

\* the block ends and control returns to the generator: commit after a normal end,
\* rollback and re-raise after an exception, of the block or of the commit; the finally
\* clause prints and nothing else.
\* outcome: Returned, or the exception the block raises; fault: whether the commit raises.
safe_db_session_exit(s, outcome, fault) ==
    /\ req[s].pc = "block"
    /\ req[s].kind = "scope"
    /\ LET r == [req[s] EXCEPT !.session = db_query(@), !.pc = "done"]
           commit_error == [class |-> "OperationalError",
                            phrases |-> {"server closed the connection"}]
       IN  req' = [req EXCEPT ![s] =
                IF outcome = Returned /\ fault = "none"
                    THEN [r EXCEPT !.status_code = 200, !.committed = TRUE,
                                   !.session = db_commit(@)]
                ELSE IF outcome = Returned
                    THEN [r EXCEPT !.status_code = 500, !.errors = <<commit_error>>,
                                   !.raised = commit_error, !.fault = fault,
                                   !.session = db_rollback(@)]
                ELSE [r EXCEPT !.status_code = 500, !.errors = <<outcome>>, !.raised = outcome,
                               !.session = db_rollback(@)]]
    /\ UNCHANGED <<accounts, qris_transactions, QRIS_STORAGE, transaction_histories, now, sinkvars, pinvars>>

RetryCounts == {1, DEFAULT_MAX_RETRIES}
NextDb ==
    \/ \E session \in SessionStates, max_retries \in RetryCounts :
          safe_db_query_begin("s1", session, max_retries)
    \/ \E outcome \in {Returned} \cup DbErrors : retry_db_operation_attempt("s1", outcome)
    \/ \E session \in SessionStates : safe_db_session_enter("s1", session)
    \/ \E outcome \in {Returned} \cup DbErrors, fault \in {"none", "commit"} :
          safe_db_session_exit("s1", outcome, fault)
    \/ respond("s1")
SpecDb == Init /\ [][NextDb]_vars

\* ------------------------------------------------------ transfers across midnight
\* the process keeps running over midnight while two customers transfer
DailyAmounts == {2, 3, 9, MAX_TRANSACTION_AMOUNT}
DailyRoutes == {<<"u1", "a1", "a2">>, <<"u2", "a2", "a1">>}
InitDaily ==
    /\ accounts = [InitAccounts EXCEPT !["a1"].balance = 3 * MAX_TRANSACTION_AMOUNT + 21]
    /\ qris_transactions = [q \in QrisIds |-> NoQrisRow]
    /\ QRIS_STORAGE = [q \in QrisIds |-> NoQrisData]
    /\ transaction_histories = <<>>
    /\ now = IMPORT_TIME
    /\ req = [s \in Sessions |-> IdleReq]
    /\ InitSinks
    /\ InitPins

NextDaily ==
    \/ Midnight
    \/ TransferBegin("s1", DailyRoutes, DailyAmounts, {"good"}, MaxDailyRows)
    \/ TransferLedger("s1", {<<FALSE, "none">>})
    \/ respond("s1")
SpecDaily == InitDaily /\ [][NextDaily]_vars

\* ------------------------------------------------------------------ claims
Done(s) == req[s].pc = "done"
SuccessRowOf(qris_id, histories) ==
    \E i \in 1..Len(histories) :
        histories[i].transaction_id = <<"qris", qris_id>> /\ histories[i].status = "success"
Redeemed(s) == Done(s) /\ req[s].kind = "qris" /\ req[s].status_code = 200

\* C1: QRIS single-use.  A redemption that passes every check succeeds and leaves the
\* persisted record CONSUMED; every later redemption of the same code, by whichever
\* customer, fails with 400 'Invalid QRIS code' and changes no balance.
C1_SingleUse ==
    \A s \in Sessions :
        /\ Redeemed(s) => qris_transactions[req[s].token.qris_id].status = "CONSUMED"
        /\ (Done(s) /\ req[s].kind = "qris" /\ req[s].token.wellformed
                /\ SuccessRowOf(req[s].token.qris_id, req[s].pre_histories))
             => /\ req[s].status_code = 400
                /\ req[s].detail = "Invalid QRIS code"
                /\ accounts = req[s].pre_accounts


\* a request's ledger stage commits its debit in this step
DebitApplied(s) ==
    /\ req[s].pc = "ledger"
    /\ req'[s].pc = "done"
    /\ req'[s].committed
LastRow(histories) == histories[Len(histories)]

\* C2: Balance conservation.  Whenever a debit of amount a is committed on an account
\* whose balance is b at that moment, the account's balance after the commit is exactly
\* b - a, and exactly one history row is added for it, a status=success row of that
\* account with amount a, balance_before = b and balance_after = b - a, the new balance.
C2_BalanceConservation ==
    [][\A s \in Sessions : DebitApplied(s) =>
          LET a == req[s].amount
              b == accounts[req[s].account].balance
              row == LastRow(transaction_histories')
          IN  /\ accounts'[req[s].account].balance = b - a
              /\ Len(transaction_histories') = Len(transaction_histories) + 1
              /\ row.status = "success"
              /\ row.account_id = req[s].account
              /\ row.amount = a
              /\ row.balance_before = b
              /\ row.balance_after = b - a
              /\ row.balance_after = accounts'[req[s].account].balance]_vars

\* a redemption and a transfer have both debited a1, from 3 down to 0
C2_Witness ==
    /\ Len(transaction_histories) = 2
    /\ \A i \in 1..2 : transaction_histories[i].status = "success"
                       /\ transaction_histories[i].account_id = "a1"
    /\ {transaction_histories[i].transaction_type : i \in 1..2} = {"qris_consume", "transfer_out"}
    /\ accounts["a1"].balance = 0
    /\ \E s \in Sessions : Done(s) /\ req[s].committed /\ req[s].amount > 0

\* C3: No negative balance.  From non-negative balances, after any sequence and any
\* interleaving of redemptions and transfers, every account's balance is >= 0.
C3_NonNegativeBalance ==
    \A a \in AccountNumbers : accounts[a].balance >= 0

\* two requests read a1's balance before either wrote it, and both have committed a debit
C3_Witness ==
    /\ Len(transaction_histories) = 2
    /\ \A i \in 1..2 : /\ transaction_histories[i].status = "success"
                       /\ transaction_histories[i].account_id = "a1"
                       /\ transaction_histories[i].balance_before = InitAccounts["a1"].balance
    /\ \A s \in Sessions : Done(s) /\ req[s].committed

\* session s starts a redemption in this step with a token that names a stored record,
\* presented by a customer who has an active account
RedeemAttempt(s, q) ==
    /\ req[s].pc = "idle"
    /\ req'[s].pc # "idle"
    /\ req'[s].kind = "qris"
    /\ req'[s].token.wellformed
    /\ req'[s].token.qris_id = q
    /\ qris_transactions[q].present
    /\ ActiveAccountsOf(req'[s].user) # {}
FailedWith(r, code, detail) ==
    r.pc = "done" /\ r.status_code = code /\ r.detail = detail
Terminal(q) == qris_transactions[q].status \in {"CONSUMED", "EXPIRED"}

\* C4: CONSUMED and EXPIRED are final.  No step changes a record whose status is CONSUMED
\* or EXPIRED, and a redemption attempt on such a record ends at once with the status
\* failure, 400 'Invalid QRIS code', never with 'QRIS expired'.
C4_TerminalFinal ==
    [][\A q \in QrisIds : Terminal(q) =>
          /\ qris_transactions'[q] = qris_transactions[q]
          /\ \A s \in Sessions : RedeemAttempt(s, q) =>
                FailedWith(req'[s], 400, "Invalid QRIS code")]_vars

\* a redemption on an EXPIRED record, later than its expiry, was rejected at the status check
C4_Witness ==
    \E s \in Sessions :
        /\ req[s].kind = "qris"
        /\ FailedWith(req[s], 400, "Invalid QRIS code")
        /\ req[s].seen_status = "EXPIRED"
        /\ qris_transactions[req[s].token.qris_id].status = "EXPIRED"
        /\ now > qris_transactions[req[s].token.qris_id].expired_at

\* C5: Lazy expiry.  A record turns EXPIRED only in a step that is a redemption attempt on
\* it, made while it is ACTIVE and now > expired_at; every such attempt stores EXPIRED and
\* ends with 400 'QRIS expired'.  Issuing, the clock and every other step leave an ACTIVE
\* record past its expiry ACTIVE.
C5_LazyExpiry ==
    [][\A q \in QrisIds :
          LET past == qris_transactions[q].status = "ACTIVE" /\ now > qris_transactions[q].expired_at
              turns == qris_transactions[q].status # "EXPIRED" /\ qris_transactions'[q].status = "EXPIRED"
          IN  /\ turns => past /\ \E s \in Sessions : RedeemAttempt(s, q)
              /\ \A s \in Sessions : RedeemAttempt(s, q) /\ past =>
                    /\ qris_transactions'[q].status = "EXPIRED"
                    /\ FailedWith(req'[s], 400, "QRIS expired")]_vars

\* a record sat ACTIVE past its expiry while the clock moved on, and the first attempt on
\* it then stored EXPIRED and failed
C5_Witness ==
    \E s \in Sessions :
        /\ req[s].kind = "qris"
        /\ FailedWith(req[s], 400, "QRIS expired")
        /\ req[s].seen_status = "ACTIVE"
        /\ qris_transactions[req[s].token.qris_id].status = "EXPIRED"
        /\ now > qris_transactions[req[s].token.qris_id].expired_at + QRIS_TTL_MINUTES - 1

\* the reason of the first rule violated when the rules are taken in the given order
FirstViolated(order, account, amount, daily_total) ==
    LET hit == {i \in 1..Len(order) : RuleViolated(order[i], account, amount, daily_total)}
    IN  IF hit = {} THEN ""
        ELSE RuleReason(order[CHOOSE i \in hit : \A j \in hit : i <= j])

\* C6: Validation ordering.  validate_transaction reports the first rule violated in the
\* order account status, minimum, maximum, balance, daily limit, which is the order the
\* limits query announces; an amount below the minimum and above the balance is reported
\* as below the minimum.
C6_ValidationOrder ==
    \A s \in Sessions :
        (Done(s) /\ req[s].kind = "validate") =>
            req[s].reason =
                FirstViolated(validation_order, req[s].pre_accounts[req[s].account], req[s].amount,
                    _get_daily_transaction_total(req[s].user, req[s].pre_histories, now))

\* session s has validate_transaction applied in this step: the transfer handler after its
\* account lookups, the redeem handler after the QRIS lookup
Validated(s) ==
    \/ /\ req[s].pc = "idle"
       /\ req'[s].kind = "corporate"
       /\ accounts[req'[s].account].user_id = req'[s].user
       /\ accounts[req'[s].account].status = "active"
       /\ accounts[req'[s].recipient].status = "active"
       /\ req'[s].account # req'[s].recipient
    \/ /\ req[s].pc = "validate"
       /\ req[s].kind = "qris"
       /\ req'[s].pc # "validate"

\* the amounts of the customer's status=success rows inserted on the current calendar day
TodayTotal(user) ==
    SumAmounts(SelectSeq(transaction_histories,
        LAMBDA h : h.user_id = user /\ h.status = "success" /\ h.written_day = DayOf(now)))

\* the rules that precede the daily limit all pass
EarlierRulesPass(account, amount) ==
    /\ account.status = "active"
    /\ amount >= MIN_TRANSACTION_AMOUNT
    /\ amount <= MAX_TRANSACTION_AMOUNT
    /\ amount <= account.balance

\* rejected with the daily-limit reason exactly when today's total plus the amount
\* exceeds the configured cap
DailyCapRule(s) ==
    (req'[s].reason = "daily_limit_exceeded")
        <=> (TodayTotal(req'[s].user) + req'[s].amount > DAILY_TRANSACTION_LIMIT)

\* the announced cap of 20 after two transactions of 9: a third of 3 is rejected, of 2 passes
DailyCapExample(s) ==
    (TodayTotal(req'[s].user) = 2 * 9 /\ req'[s].amount \in {2, 3}) =>
        ((req'[s].reason = "daily_limit_exceeded")
            <=> (2 * 9 + req'[s].amount > PUBLISHED_DAILY_LIMIT))

\* C7: Daily cap.  A transaction that passes the earlier rules is rejected with the
\* daily-limit reason if and only if the customer's status=success rows of the current
\* calendar day plus the amount exceed the daily cap; with the cap of 20 and two earlier
\* transactions of 9, a third of 3 is rejected and a third of 2 passes.
C7_DailyCap ==
    [][\A s \in Sessions :
          (Validated(s) /\ EarlierRulesPass(accounts[req'[s].account], req'[s].amount)) =>
              DailyCapRule(s) /\ DailyCapExample(s)]_vars

\* the finished request r got as far as validate_transaction
QrisAccepted(r) ==
    r.kind = "qris" /\ r.seen_status = "ACTIVE" /\ ~FailedWith(r, 400, "QRIS expired")
TransferAccepted(r) ==
    /\ r.kind = "corporate"
    /\ r.pre_accounts[r.account].user_id = r.user
    /\ r.pre_accounts[r.account].status = "active"
    /\ r.pre_accounts[r.recipient].status = "active"
    /\ r.account # r.recipient
\* the rows written since the request began
RowsAdded(r) == SubSeq(transaction_histories, Len(r.pre_histories) + 1, Len(transaction_histories))
NoSuccessRowAdded(r) ==
    \A i \in 1..Len(RowsAdded(r)) : RowsAdded(r)[i].status # "success"

\* C8: Insufficient balance.  An attempt whose amount exceeds the account's balance ends
\* with the validation failure insufficient_balance, a 400 and not a system error, leaves
\* every balance unchanged and adds no status=success row.
C8_InsufficientBalance ==
    \A s \in Sessions :
        (/\ Done(s)
         /\ QrisAccepted(req[s]) \/ TransferAccepted(req[s])
         /\ req[s].amount > req[s].pre_accounts[req[s].account].balance) =>
            /\ req[s].status_code = 400
            /\ req[s].reason = "insufficient_balance"
            /\ accounts = req[s].pre_accounts
            /\ NoSuccessRowAdded(req[s])

\* C9: Unit-of-work atomicity of a transfer.  When a transfer has finished, either the
\* sender debit, the recipient credit and the sender's row are all stored, or, when a
\* step raised before the commit completed, balances and rows are exactly as before.
C9_TransferAtomic ==
    \A s \in Sessions :
        (Done(s) /\ req[s].kind = "corporate") =>
            LET r == req[s]
                pre == r.pre_accounts
            IN  IF r.committed
                THEN /\ accounts = [pre EXCEPT ![r.account].balance = @ - r.amount,
                                               ![r.recipient].balance = @ + r.amount]
                     /\ Len(RowsAdded(r)) = 1
                     /\ RowsAdded(r)[1].status = "success"
                     /\ RowsAdded(r)[1].account_id = r.account
                     /\ RowsAdded(r)[1].amount = r.amount
                ELSE /\ accounts = pre
                     /\ transaction_histories = r.pre_histories

\* a transfer passed validation and the PIN gate, debited and credited in its session, and
\* then failed before its commit completed
C9_Witness ==
    \E s \in Sessions :
        /\ Done(s) /\ req[s].kind = "corporate"
        /\ req[s].pin = "good"
        /\ req[s].fault \in {"processing", "commit"}
        /\ req[s].status_code = 500
        /\ ~req[s].committed
        /\ req[s].amount > 0
        /\ accounts = req[s].pre_accounts

\* C10: Failure audit row.  Every redemption that fails after the QRIS record was looked
\* up, and every failed transfer, leaves one added row with status=failed, unless the
\* recording itself failed.
C10_FailureAuditRow ==
    \A s \in Sessions :
        (/\ Done(s)
         /\ req[s].status_code # 200
         /\ req[s].fault # "record"
         /\ (req[s].kind = "qris" /\ req[s].seen_status # "") \/ req[s].kind = "corporate") =>
            \E i \in 1..Len(RowsAdded(req[s])) :
                /\ RowsAdded(req[s])[i].status = "failed"
                /\ RowsAdded(req[s])[i].user_id = req[s].user

\* a step of session s is a step of the same operation, on the same inputs, under every
\* condition of the sinks: same response, same tables, same counters
SinkBlind(s) ==
    /\ req'[s].kind = "qris" =>
      \A user \in Users, qris_code \in QrisCodes :
          qris_consume_begin_under(s, user, qris_code, SinkNow)
              => \A k \in SinkConditions : qris_consume_begin_under(s, user, qris_code, k)
    /\ req'[s].kind = "qris" =>
      \A m \in QrisModes :
          qris_consume_validate_under(s, m[1], m[2], m[3], SinkNow)
              => \A k \in SinkConditions : qris_consume_validate_under(s, m[1], m[2], m[3], k)
    /\ req'[s].kind = "qris" =>
      \A fault \in QrisFaults :
          qris_consume_ledger_under(s, fault, SinkNow)
              => \A k \in SinkConditions : qris_consume_ledger_under(s, fault, k)
    /\ req'[s].kind = "corporate" =>
      \A t \in TransferRoutes, amount \in {2, 4}, pin \in Pins :
          corporate_begin_under(s, t[1], t[2], t[3], amount, pin, SinkNow)
              => \A k \in SinkConditions :
                     corporate_begin_under(s, t[1], t[2], t[3], amount, pin, k)
    /\ req'[s].kind = "corporate" =>
      \A m \in CorporateModes :
          corporate_ledger_under(s, m[1], m[2], SinkNow)
              => \A k \in SinkConditions : corporate_ledger_under(s, m[1], m[2], k)
    /\ req'[s].kind = "validate" =>
      \A user \in Users, account_number \in AccountNumbers, amount \in {2, 4} :
          Validate_under(s, user, account_number, amount, SinkNow)
              => \A k \in SinkConditions : Validate_under(s, user, account_number, amount, k)
    /\ req'[s].kind = "pin" =>
      \A user \in PinUsers, pin \in Pins, transaction_type \in TransactionTypes :
          PinCheck_under(s, user, pin, transaction_type, SinkNow)
              => \A k \in SinkConditions : PinCheck_under(s, user, pin, transaction_type, k)

\* C11: event-sink independence.  Whatever a redeem, validate, PIN check or transfer
\* step returns and writes while the sinks are in one condition, it returns and writes
\* the same under every other condition: delivered, failed, or no sink at all.  Issue
\* publishes nothing.  A publish failure neither raises into the caller nor rolls back.
C11_SinkIndependence ==
    [][\A s \in Sessions : req'[s] # req[s] => SinkBlind(s)]_vars

\* a transfer and a redemption each committed and answered with success although the
\* event of the request was lost
C11_Witness ==
    /\ req["s1"].pc = "done"
    /\ req["s1"].kind \in {"corporate", "qris"}
    /\ req["s1"].status_code = 200
    /\ req["s1"].committed
    /\ published["s1"] = "lost"
    /\ Len(transaction_histories) = 1
    /\ accounts # req["s1"].pre_accounts

\* the response of a refused PIN
Refused(r) == r.pc = "done" /\ r.detail = "Invalid PIN"

\* C12: PIN attempt counting.  The k-th refused PIN of a (customer, transaction type)
\* since process start reports attempt ((k - 1) mod 3) + 1, and leaves the counters of
\* every other key as they were; a step that refuses no PIN, an accepted PIN included,
\* changes no counter.
C12_AttemptCycle ==
    [][\A s \in Sessions : req'[s] # req[s] =>
          LET r == req'[s]
              key == <<r.user, r.transaction_type>>
          IN  IF Refused(r)
                  THEN /\ failed_checks'[key] = failed_checks[key] + 1
                       /\ r.attempt = ((failed_checks'[key] - 1) % 3) + 1
                       /\ \A k \in PinKeys \ {key} : _failed_attempts'[k] = _failed_attempts[k]
                  ELSE _failed_attempts' = _failed_attempts]_vars

\* the fourth wrong PIN of u1 for transfers reports attempt 1 again, after u1 got a PIN
\* accepted, while u2 stands at two wrong PINs for redemptions
C12_Witness ==
    /\ Refused(req["s1"])
    /\ req["s1"].user = "u1"
    /\ req["s1"].transaction_type = "corporate_transaction"
    /\ failed_checks[<<"u1", "corporate_transaction">>] = 4
    /\ req["s1"].attempt = 1
    /\ failed_checks[<<"u2", "qris_consume">>] = 2
    /\ _failed_attempts[<<"u2", "qris_consume">>] = 2
    /\ _failed_attempts[<<"u1", "qris_consume">>] = 0

\* a call of validate_pin_or_fail that has just returned to session s
PinChecked(s) == req[s].pc = "idle" /\ req'[s].pc = "done" /\ req'[s].kind = "pin"

\* C13: PIN not configured.  Every PIN check of a customer without a stored PIN hash
\* ends with 422 "PIN not set", whatever PIN was supplied and however often the call is
\* repeated: verify_pin is not called, no failure counter moves and no event is built
\* or published.
C13_PinNotConfigured ==
    [][\A s \in Sessions : PinChecked(s) /\ hashed_pin(req'[s].user) = "" =>
          /\ req'[s].status_code = 422
          /\ req'[s].detail = "PIN not set"
          /\ ~req'[s].pin_compared
          /\ ~req'[s].event.emitted
          /\ req'[s].sent = {}
          /\ req'[s].attempt = 0
          /\ UNCHANGED pinvars]_vars

\* u3, who has no PIN hash, is turned away with 422 for a wrong PIN while u1 stands at
\* two refused PINs; u3 has no count under either transaction type
C13_Witness ==
    /\ req["s1"].pc = "done"
    /\ req["s1"].kind = "pin"
    /\ req["s1"].user = "u3"
    /\ req["s1"].pin = "bad"
    /\ req["s1"].status_code = 422
    /\ failed_checks[<<"u1", "qris_consume">>] = 2
    /\ \A t \in TransactionTypes : _failed_attempts[<<"u3", t>>] = 0

\* C14: invalid PIN.  A request refused for a wrong PIN has published, before the
\* refusal was raised, an audit event that carries the failure reason and the attempt
\* number of the response; the refusal is an authorization failure (401); no balance
\* has changed.
C14_InvalidPin ==
    \A s \in Sessions : Refused(req[s]) =>
        /\ req[s].event.emitted
        /\ "elk" \in req[s].sent
        /\ req[s].event.failure_reason # ""
        /\ req[s].event.failed_attempts = req[s].attempt
        /\ req[s].status_code = 401
        /\ accounts = req[s].pre_accounts

\* a call of safe_db_query, running or returned
Querying(r) == r.kind = "query" /\ r.pc \in {"attempt", "done"}
\* an error the retry layer takes for a transient storage failure
Transient(e) == is_db_error(e) /\ is_transaction_or_connection_error(e)

\* C15: bounded retry with backoff.  The operation is invoked at most max_retries + 1
\* times and no attempt follows the last one, so the call ends; a call that returns a
\* result returns that of its first successful attempt; after the i-th failed attempt
\* that is followed by another one the call sleeps delay * backoff_factor^(i-1), and it
\* does not sleep after the attempt that ends it.
C15_BoundedRetry ==
    \A s \in Sessions : Querying(req[s]) =>
        LET r == req[s]
        IN  /\ r.calls <= r.max_retries + 1
            /\ r.pc = "attempt" => r.calls <= r.max_retries
            /\ Len(r.sleeps) = IF r.pc = "done" THEN r.calls - 1 ELSE r.calls
            /\ \A i \in 1..Len(r.sleeps) :
                   r.sleeps[i] = DEFAULT_DELAY * DEFAULT_BACKOFF_FACTOR ^ (i - 1)
            /\ r.pc = "done" /\ r.status_code = 200 =>
                   Len(r.errors) = r.calls - 1 /\ r.raised = NoError

\* with the defaults, four failed attempts and sleeps of 1, 2 and 4 seconds
C15_Witness ==
    /\ req["s1"].kind = "query"
    /\ req["s1"].pc = "done"
    /\ req["s1"].max_retries = DEFAULT_MAX_RETRIES
    /\ req["s1"].calls = 4
    /\ req["s1"].sleeps = <<1, 2, 4>>
    /\ req["s1"].status_code = 500

\* C16: non-transient errors are not retried.  An error whose message matches none of
\* the transient patterns ends the call at once: it is raised to the caller, no sleep
\* and no further attempt follow it; raised by the first attempt, it leaves the
\* operation invoked exactly once.
C16_NoRetryOfNonTransient ==
    \A s \in Sessions : Querying(req[s]) =>
        \A i \in 1..Len(req[s].errors) :
            ~is_transaction_or_connection_error(req[s].errors[i]) =>
                /\ req[s].pc = "done"
                /\ i = Len(req[s].errors)
                /\ req[s].raised = req[s].errors[i]
                /\ req[s].calls = i
                /\ Len(req[s].sleeps) = i - 1

\* C17: retry exhaustion.  When all max_retries + 1 attempts fail with transient errors,
\* the caller gets the error of the last attempt itself, and the session has no
\* transaction left begun when it does.
C17_Exhaustion ==
    \A s \in Sessions :
        (/\ Querying(req[s])
         /\ req[s].pc = "done"
         /\ Len(req[s].errors) = req[s].max_retries + 1
         /\ \A i \in 1..Len(req[s].errors) : Transient(req[s].errors[i]))
        => /\ req[s].raised = req[s].errors[Len(req[s].errors)]
           /\ req[s].status_code = 500
           /\ req[s].session # "in_transaction"

\* four transient failures, the first a closed connection and the last an invalid
\* transaction, on a session that had a transaction begun
C17_Witness ==
    /\ req["s1"].kind = "query"
    /\ req["s1"].pc = "done"
    /\ Len(req["s1"].errors) = DEFAULT_MAX_RETRIES + 1
    /\ \A i \in 1..Len(req["s1"].errors) : Transient(req["s1"].errors[i])
    /\ req["s1"].errors[1].class = "OperationalError"
    /\ req["s1"].raised.class = "InvalidRequestError"

\* C18: scoped session helper.  A block that ends normally is committed; a block left
\* by an exception is rolled back and the same exception is raised to the caller; on
\* every exit the session has been committed or rolled back and then closed.
C18_ScopedSession ==
    \A s \in Sessions : req[s].kind = "scope" /\ req[s].pc = "done" =>
        /\ req[s].errors = <<>> => req[s].committed /\ req[s].status_code = 200
        /\ req[s].errors # <<>> => ~req[s].committed /\ req[s].raised = req[s].errors[1]
        /\ req[s].session = "closed"

\* the well-formed codes that carry the id q
TokensFor(q) == {c \in TokenCodes : c.wellformed /\ c.qris_id = q}

\* C19: the token is a locator only.  What a redemption answers and changes when it
\* looks up a well-formed code is what it would answer and change for any other
\* well-formed code carrying the same qris_id, whatever amount or expiry that code
\* states; the amount validated, debited and written to the history row is the amount
\* of the persisted record.
C19_TokenLocatorOnly ==
    [][\A s \in Sessions :
          /\ (/\ req[s].pc = "idle"
              /\ req'[s].kind = "qris"
              /\ req'[s].token.wellformed
              /\ req'[s].account # NoAccount)
             => \A c \in TokensFor(req'[s].token.qris_id) :
                    LET r == validate_and_consume_qris(c, qris_transactions, now)
                    IN  /\ qris_transactions' = r.table
                        /\ IF r.ok
                               THEN /\ req'[s].pc = "validate"
                                    /\ req'[s].amount = r.amount
                                    /\ req'[s].amount = qris_transactions[c.qris_id].amount
                               ELSE /\ req'[s].pc = "done"
                                    /\ req'[s].status_code = r.status_code
                                    /\ req'[s].detail = r.detail
          /\ (/\ req[s].pc = "ledger"
              /\ req[s].kind = "qris"
              /\ req'[s].status_code = 200)
             => LET record == qris_transactions[req[s].token.qris_id]
                    row == transaction_histories'[Len(transaction_histories')]
                IN  /\ accounts'[req[s].account].balance = req[s].balance - record.amount
                    /\ row.amount = record.amount
                    /\ row.transaction_id = <<"qris", req[s].token.qris_id>>]_vars

\* a code that states amount 1 and an expiry a day away is redeemed for the 2 of the
\* persisted record
C19_Witness ==
    /\ Redeemed("s1")
    /\ req["s1"].token.amount = 1
    /\ req["s1"].token.expired_at = DAY_MINUTES
    /\ qris_transactions[req["s1"].token.qris_id].amount = 2
    /\ req["s1"].amount = 2
    /\ accounts["a1"].balance = InitAccounts["a1"].balance - 2

\* the arithmetic the claim asks of a row: the amount has left or entered the balance
Moved(row) ==
    \/ row.balance_after = row.balance_before - row.amount
    \/ row.balance_after = row.balance_before + row.amount
\* the rows of before are the first rows of after, unchanged
AppendOnly(before, after) ==
    /\ Len(before) <= Len(after)
    /\ SubSeq(after, 1, Len(before)) = before

Judged(s) ==
    \/ /\ req[s].pc = "validate"
       /\ req[s].kind = "qris"
       /\ req'[s] # req[s]
    \/ /\ req[s].pc = "idle"
       /\ req'[s].kind = "corporate"
       /\ accounts[req'[s].account].user_id = req'[s].user
       /\ accounts[req'[s].account].status = "active"
       /\ accounts[req'[s].recipient].status = "active"
       /\ req'[s].account # req'[s].recipient
\* what validate_transaction finds for the request that is judged in this step
Judgement(s) ==
    validate_transaction(accounts[req'[s].account], req'[s].amount,
        _get_daily_transaction_total(req'[s].user, transaction_histories, now))
LedgerUntouched ==
    /\ accounts' = accounts
    /\ \A i \in (Len(transaction_histories) + 1)..Len(transaction_histories') :
           transaction_histories'[i].status # "success"

\* C21: stage ordering in redeem and in corporate transfer.  The validation pipeline
\* runs before the PIN gate and both before any ledger mutation: when validation fails
\* the PIN is not compared and the PIN failure counters are unchanged; when the PIN
\* check fails no balance changes and no success row is written; and a step that
\* changes a balance or writes a success row is the ledger stage of a request whose
\* validation passed and whose PIN verified.
C21_StageOrdering ==
    [][/\ \A s \in Sessions :
            /\ (Judged(s) /\ ~Judgement(s).ok)
                 => /\ ~req'[s].pin_compared
                    /\ _failed_attempts' = _failed_attempts
                    /\ failed_checks' = failed_checks
                    /\ req'[s].pc = "done"
                    /\ LedgerUntouched
            /\ (Judged(s) /\ Judgement(s).ok
                    /\ ~verify_pin(req'[s].pin, hashed_pin(req'[s].user)))
                 => /\ req'[s].pin_compared
                    /\ req'[s].pc = "done"
                    /\ req'[s].status_code = 400
                    /\ LedgerUntouched
       /\ ~LedgerUntouched
            => \E s \in Sessions :
                  /\ req[s].pc = "ledger"
                  /\ req'[s] # req[s]
                  /\ req[s].reason = ""
                  /\ req[s].pin_compared
                  /\ verify_pin(req[s].pin, hashed_pin(req[s].user))]_vars

\* after a wrong PIN on a transfer and a transfer that went through, a redemption
\* fails validation: its PIN was never compared and the counters stand as they were
C21_Witness ==
    /\ req["s1"].pc = "done"
    /\ req["s1"].kind = "qris"
    /\ req["s1"].reason = "insufficient_balance"
    /\ ~req["s1"].pin_compared
    /\ failed_checks[<<"u1", "corporate_transaction">>] = 1
    /\ failed_checks[<<"u1", "qris_consume">>] = 0
    /\ _failed_attempts[<<"u1", "corporate_transaction">>] = 1
    /\ accounts["a1"].balance = 1

\* the storage fails while the failed row of session s's request is flushed or committed
RecordingFails(s) == req'[s].fault \in {"record", "commit_record", "record_commit"}
\* the failure that ends the redemption of session s in this step, as the client is to
\* see it: the HTTPException of the stage that refused, or the handler's 500 for any
\* other exception
OriginalFailure(s) ==
    IF req[s].pc = "ledger"
        THEN <<500, "Failed to consume QRIS">>
    ELSE IF ~Judgement(s).ok
        THEN IF Judgement(s).raised = "HTTPException"
                 THEN <<Judgement(s).status_code, Judgement(s).error>>
                 ELSE <<500, "Failed to consume QRIS">>
    ELSE IF ~verify_pin(req'[s].pin, hashed_pin(req'[s].user))
        THEN <<400, "Invalid PIN">>
    ELSE <<500, "Failed to consume QRIS">>

\* C22: the compensating write never masks the original error.  When the recording or
\* the commit of the failed-transaction row fails, nothing of it is raised: the
\* redemption still ends with the status and detail of the original failure, and no row
\* and no balance is written by the step.
C22_CompensationNeverMasks ==
    [][\A s \in Sessions :
          (/\ req[s].kind = "qris"
           /\ req[s].pc \in {"validate", "ledger"}
           /\ req'[s].pc = "done"
           /\ RecordingFails(s))
          => /\ <<req'[s].status_code, req'[s].detail>> = OriginalFailure(s)
             /\ req'[s].status_code # 200
             /\ transaction_histories' = transaction_histories
             /\ accounts' = accounts]_vars

\* a wrong PIN is answered 400 'Invalid PIN' although the commit of its failed row raised
C22_Witness ==
    /\ req["s1"].pc = "done"
    /\ req["s1"].kind = "qris"
    /\ req["s1"].fault = "record_commit"
    /\ req["s1"].pin = "bad"
    /\ req["s1"].status_code = 400
    /\ req["s1"].detail = "Invalid PIN"
    /\ transaction_histories = req["s1"].pre_histories

C24_CheckThenAct ==
    [][\A s \in Sessions :
          /\ (req'[s] # req[s] /\ req'[s].pc \in {"validate", "ledger"})
               => /\ accounts' = accounts
                  /\ transaction_histories' = transaction_histories
                  /\ qris_transactions' = qris_transactions
          /\ DebitApplied(s)
               => accounts'[req[s].account].balance = req[s].balance - req[s].amount]_vars

\* both sessions stand before the ledger write of a redemption of the same token, still
\* ACTIVE, for the same account, each holding the balance that is still stored
C24_Witness ==
    /\ \A s \in Sessions : /\ req[s].pc = "ledger"
                           /\ req[s].kind = "qris"
                           /\ req[s].account = "a1"
                           /\ req[s].balance = accounts["a1"].balance
                           /\ req[s].amount <= accounts["a1"].balance
    /\ req["s1"].token.qris_id = req["s2"].token.qris_id
    /\ qris_transactions[req["s1"].token.qris_id].status = "ACTIVE"
    /\ accounts = InitAccounts
    /\ transaction_histories = <<>>

\* the status=success rows that carry the qris_id q as their transaction_id
SuccessRowsOf(q, histories) ==
    {i \in 1..Len(histories) : /\ histories[i].transaction_id = <<"qris", q>>
                               /\ histories[i].status = "success"}
\* session s ends the ledger stage of a redemption of token q in this step
RedeemLedgerStep(s, q) ==
    /\ req[s].pc = "ledger"
    /\ req[s].kind = "qris"
    /\ req[s].token.qris_id = q
    /\ req'[s].pc = "done"

\* C25: at most one committed debit per token.  In any interleaving of redemptions at
\* most one status=success row exists per qris_id; the ledger commit of a redemption
\* whose token already has its success row fails on the unique transaction_id and
\* changes no balance; and a redemption that does change a balance takes the token's
\* amount from one account, in the step that adds the token's one success row.
C25_OneDebitPerToken ==
    [][\A q \in QrisIds :
          /\ Cardinality(SuccessRowsOf(q, transaction_histories')) <= 1
          /\ \A s \in Sessions : RedeemLedgerStep(s, q) =>
                IF SuccessRowsOf(q, transaction_histories) # {}
                    THEN /\ accounts' = accounts
                         /\ req'[s].status_code = 500
                         /\ ~req'[s].committed
                    ELSE accounts' # accounts =>
                         /\ SuccessRowsOf(q, transaction_histories')
                                = {Len(transaction_histories) + 1}
                         /\ accounts' = [accounts EXCEPT ![req[s].account].balance =
                                            req[s].balance - qris_transactions[q].amount]]_vars

\* two redemptions of one token passed every check on the same balance; the first
\* committed, the second failed at its commit and left the balance as the first wrote it
C25_Witness ==
    /\ \A s \in Sessions : /\ req[s].pc = "done"
                           /\ req[s].kind = "qris"
                           /\ req[s].token.qris_id = 1
                           /\ req[s].balance = InitAccounts["a1"].balance
    /\ req["s1"].status_code = 200
    /\ req["s2"].status_code = 500
    /\ Cardinality(SuccessRowsOf(1, transaction_histories)) = 1
    /\ Len(transaction_histories) = 2
    /\ accounts["a1"].balance = InitAccounts["a1"].balance - qris_transactions[1].amount

\* the status=success rows of account a
SuccessRowsOfAccount(a, histories) ==
    SelectSeq(histories, LAMBDA h : h.account_id = a /\ h.status = "success")
\* no other account has sent anything: a has only been debited
OnlyDebited(a) ==
    \A i \in 1..Len(transaction_histories) :
        transaction_histories[i].status = "success" => transaction_histories[i].account_id = a

\* C26: no lost update.  For an account that is only debited, after any interleaving of
\* successful debits, by redemptions of different tokens or by transfers, the balance
\* equals the initial balance minus the sum of the amounts of all committed
\* status=success rows of that account.
C26_NoLostUpdate ==
    \A a \in AccountNumbers : OnlyDebited(a) =>
        accounts[a].balance
            = InitAccounts[a].balance - SumAmounts(SuccessRowsOfAccount(a, transaction_histories))

\* the sum of all account balances
RECURSIVE SumBalances(_, _)
SumBalances(table, numbers) ==
    IF numbers = {} THEN 0
    ELSE LET a == CHOOSE x \in numbers : TRUE
         IN  table[a].balance + SumBalances(table, numbers \ {a})
TotalBalance(table) == SumBalances(table, AccountNumbers)

\* C27: a transfer conserves money.  A successful corporate transfer of amount a takes
\* exactly a from the sender and adds exactly a to the recipient; no step of a transfer,
\* successful or not, changes the sum of all balances; and a transfer whose sender and
\* recipient account numbers are equal is rejected with 400 and changes nothing.
C27_TransferConserves ==
    [][\A s \in Sessions :
          /\ (req[s].kind = "corporate" /\ req[s].pc = "ledger" /\ req'[s].pc = "done")
               => /\ TotalBalance(accounts') = TotalBalance(accounts)
                  /\ req'[s].status_code = 200 =>
                        accounts' = [accounts EXCEPT
                            ![req[s].account].balance = @ - req[s].amount,
                            ![req[s].recipient].balance = @ + req[s].amount]
          /\ (req[s].pc = "idle" /\ req'[s].kind = "corporate")
               => /\ accounts' = accounts
                  /\ transaction_histories' = transaction_histories
                  /\ req'[s].account = req'[s].recipient =>
                        /\ req'[s].pc = "done"
                        /\ req'[s].status_code = 400
                        /\ req'[s].detail \in {"Invalid transfer", "Account not found"}
                        /\ (accounts[req'[s].account].user_id = req'[s].user
                              /\ accounts[req'[s].account].status = "active")
                             => req'[s].detail = "Invalid transfer"
                        /\ ~req'[s].pin_compared
                        /\ _failed_attempts' = _failed_attempts]_vars

\* 2 has moved from a1 to a2
C27_Witness ==
    /\ req["s1"].pc = "done"
    /\ req["s1"].kind = "corporate"
    /\ req["s1"].status_code = 200
    /\ req["s1"].amount = 2
    /\ accounts["a1"].balance = InitAccounts["a1"].balance - 2
    /\ accounts["a2"].balance = InitAccounts["a2"].balance + 2
    /\ TotalBalance(accounts) = TotalBalance(InitAccounts)

\* C28: an error response implies no committed ledger change.  Whenever a redemption or
\* a transfer ends with an error returned to the caller, any 4xx or 5xx and a simulated
\* crash among them, no account balance has been changed and no status=success row has
\* been committed by that request.
C28_ErrorImpliesNoLedgerChange ==
    \A s \in Sessions :
        (/\ Done(s)
         /\ req[s].kind \in {"qris", "corporate"}
         /\ req[s].status_code >= 400)
        => /\ accounts = req[s].pre_accounts
           /\ NoSuccessRowAdded(req[s])
           /\ ~req[s].committed

\* a token is issued in this step
Issued == \E q \in QrisIds : ~qris_transactions[q].present /\ qris_transactions'[q].present

\* C29: frame of a QRIS redemption.  A successful redemption changes the balance of
\* exactly one account, an active account of the redeeming user, by the amount of the
\* persisted record, and leaves every other account as it was; the account named in the
\* record, the issuing customer's, is never credited; and issuing a token changes no
\* balance at all.
C29_RedemptionFrame ==
    [][/\ \A s \in Sessions :
            (req[s].kind = "qris" /\ req[s].pc = "ledger" /\ req'[s].status_code = 200)
            => LET record == qris_transactions[req[s].token.qris_id]
               IN  /\ accounts[req[s].account].user_id = req[s].user
                   /\ accounts[req[s].account].status = "active"
                   /\ record.amount > 0
                   /\ accounts' = [accounts EXCEPT
                          ![req[s].account].balance = @ - record.amount]
                   /\ accounts'[record.account_number].balance
                          <= accounts[record.account_number].balance
                   /\ record.account_number # req[s].account
                        => accounts'[record.account_number] = accounts[record.account_number]
       /\ \A s \in Sessions :
            (req'[s].kind = "qris" /\ req'[s] # req[s] /\ req'[s].status_code # 200)
            => \A a \in AccountNumbers : accounts'[a] = accounts[a]
       /\ Issued => accounts' = accounts]_vars

\* u2 has redeemed, from a2, a token that u1 issued for a1: a2 is debited and a1 holds
\* what it held
C29_Witness ==
    /\ Redeemed("s1")
    /\ req["s1"].user = "u2"
    /\ req["s1"].account = "a2"
    /\ qris_transactions[req["s1"].token.qris_id].customer_id = "u1"
    /\ qris_transactions[req["s1"].token.qris_id].account_number = "a1"
    /\ accounts["a2"].balance = req["s1"].pre_accounts["a2"].balance - 2
    /\ accounts["a1"] = req["s1"].pre_accounts["a1"]
    /\ accounts["a3"] = InitAccounts["a3"]

\* C30: in-memory mirror consistency.  After every issue and every redemption attempt,
\* successful, expired or rejected, the status held in the QRIS_STORAGE entry of a
\* qris_id equals the status of the persisted QRISTransaction row of that qris_id.
C30_MirrorConsistency ==
    \A q \in QrisIds : qris_transactions[q].present =>
        /\ QRIS_STORAGE[q].present
        /\ QRIS_STORAGE[q].status = qris_transactions[q].status

====
